---- MODULE Spec2Model ----
(***************************************************************************)
(* The workspace blob-usage ledger of libs/database/src/resource_usage.rs: *)
(* the af_blob_metadata table and the statements the ledger runs on it.    *)
(*                                                                         *)
(* The store is PostgreSQL at READ COMMITTED.  Every statement sent        *)
(* through the pool is one atomic step on the committed table.  The        *)
(* caller's transaction of delete_blob_metadata holds its deletions        *)
(* (row locks) until it commits or rolls back; a writer that meets a       *)
(* locked row waits, so its action is not enabled until then.  The store   *)
(* is taken to answer every statement: transport failures are not          *)
(* modelled.                                                               *)
(*                                                                         *)
(* The 64-bit integers of the code (usize, i64, u64) are scaled down to    *)
(* WordBits bits; every conversion keeps its wrap-around at that width.    *)
(***************************************************************************)
EXTENDS Integers, Sequences, FiniteSets, TLC

VARIABLES
  table,      \* the committed rows of af_blob_metadata
  txOpen,     \* whether the caller's transaction is open
  txDeleted,  \* keys <<workspace_id, file_id>> deleted in the open transaction
  txInserted, \* rows inserted in the open transaction, not yet committed
  last,       \* the last call: its name, arguments and result
  inserted,   \* history: keys some insert call has named so far
  origin,     \* history: for each key with a row, the call that wrote the row
  rcm         \* each redis_connection_manager call: its position, its locals
              \* attempt and wait_time, and the history of its tries and sleeps

vars == <<table, txOpen, txDeleted, txInserted, last, inserted, origin, rcm>>

---------------------------------------------------------------------------
(* Bounds *)

\* Width standing for the 64 bits of usize, i64 and u64.
WordBits == 4
\* Longest batch handed to insert_blob_metadata_bulk.
MaxBatch == 2
\* Most keys one transaction deletes before it ends.
MaxTxDeletes == 2
\* Most rows one transaction holds inserted and uncommitted.
MaxTxInserts == 1
\* Concurrent calls of redis_connection_manager.
NumCallers == 2

I64Max == 2^(WordBits - 1) - 1
I64Min == -(2^(WordBits - 1))
U64Max == 2^WordBits - 1

---------------------------------------------------------------------------
(* Inputs *)

Workspaces == {"w1", "w2"}
\* file_id arguments; "a_c" is a key of both workspaces
FileIds(w) == IF w = "w1" THEN {"a_b_c", "a_c"} ELSE {"a_c"}
\* (file_type, file_size: usize) arguments of insert_blob_metadata; the second
\* size is the first usize above i64::MAX
UpsertValues == {<<"png", 1>>, <<"txt", I64Max + 1>>}
\* BulkInsertMeta values; the first two derive the same key "a_b_c"
BulkInsertMeta(w) ==
  IF w = "w1"
    THEN {[object_id |-> "a", file_id |-> "b_c", file_type |-> "jpg", file_size |-> 2],
          [object_id |-> "a_b", file_id |-> "c", file_type |-> "gif", file_size |-> -1],
          [object_id |-> "a", file_id |-> "c", file_type |-> "jpg", file_size |-> 2]}
    ELSE {[object_id |-> "a", file_id |-> "c", file_type |-> "gif", file_size |-> -1]}

\* The batches of at most MaxBatch entries, no entry twice.
Batches(Metas) ==
  UNION {{m \in [1..n -> Metas] : \A i, j \in 1..n : m[i] = m[j] => i = j} :
           n \in 0..MaxBatch}

\* file_id arguments of the reads; <<"w2", "a_b_c">> is never inserted
ProbeIds == {"a_b_c", "a_c"}

---------------------------------------------------------------------------
(* The table *)

Row(w, f, t, s) ==
  [workspace_id |-> w, file_id |-> f, file_type |-> t, file_size |-> s]

\* Mutant: the WHERE clause without its workspace_id condition.
Matching_AnyWorkspace(rows, w, f) == {r \in rows : r.file_id = f}

\* WHERE workspace_id = $1 AND file_id = $2
Matching(rows, w, f) == {r \in rows : r.workspace_id = w /\ r.file_id = f}

\* Mutant: the aggregate without its WHERE clause.
RowsOf_AllWorkspaces(rows, w) == rows

\* WHERE workspace_id = $1
RowsOf(rows, w) == {r \in rows : r.workspace_id = w}

\* A row deleted by the open transaction is locked until the transaction ends.
Locked(w, f) ==
  txOpen /\ (<<w, f>> \in txDeleted \/ Matching(txInserted, w, f) # {})

\* History of who wrote a key's row.
NoOrigin == [op |-> "none"]
OriginOf(k) == IF k \in DOMAIN origin THEN origin[k] ELSE NoOrigin
\* The key a bulk entry names: object_id, an underscore, file_id.
EntryKey(e) == e.object_id \o "_" \o e.file_id

---------------------------------------------------------------------------
(* insert_blob_metadata *)

\* `file_size as i64`: the usize reinterpreted in two's complement.
ToI64(n) == IF n > I64Max THEN n - 2^WordBits ELSE n

\* Mutant: a plain INSERT on a table without the unique key.
UpsertRows_NoConflict(rows, w, f, t, s) == rows \cup {Row(w, f, t, s)}

\* INSERT ... ON CONFLICT (workspace_id, file_id) DO UPDATE SET file_type, file_size
UpsertRows(rows, w, f, t, s) ==
  LET conflict == Matching(rows, w, f) IN
  IF conflict = {}
    THEN rows \cup {Row(w, f, t, s)}
    ELSE {IF r \in conflict THEN [r EXCEPT !.file_type = t, !.file_size = s] ELSE r :
            r \in rows}

\* Mutant: a count other than 1 is returned as an error.
UpsertOutcome_Strict(n) ==
  [n |-> n, logged |-> (n # 1), res |-> IF n = 1 THEN "Ok" ELSE "Err"]

\* let n = res.rows_affected(); if n != 1 { tracing::error!(..) }; Ok(())
UpsertOutcome(n) == [n |-> n, logged |-> (n # 1), res |-> "Ok"]

\* The call when the store executes the statement and reports n affected
\* rows; a store that reports 0 has written nothing.
insert_blob_metadata_reported(w, f, t, size, n) ==
  LET out == UpsertOutcome(n) IN
  /\ ~Locked(w, f)
  /\ table' = IF n = 0 THEN table ELSE UpsertRows(table, w, f, t, ToI64(size))
  /\ last' = [op |-> "insert_blob_metadata", workspace_id |-> w, file_id |-> f,
              file_type |-> t, file_size |-> size, res |-> out.res,
              n |-> out.n, logged |-> out.logged]
  /\ inserted' = inserted \cup {<<w, f>>}
  /\ origin' = IF n = 0 THEN origin
               ELSE (<<w, f>> :> [op |-> "insert_blob_metadata", file_type |-> t,
                                   file_size |-> size]) @@ origin
  /\ UNCHANGED <<txOpen, txDeleted, txInserted, rcm>>

\* The upsert of one VALUES row affects one row, inserted or updated.
insert_blob_metadata(w, f, t, size) == insert_blob_metadata_reported(w, f, t, size, 1)

---------------------------------------------------------------------------
(* insert_blob_metadata_bulk *)

\* Mutant: the key without its separator.
BlobKey_NoSeparator(object_id, file_id) == object_id \o file_id

\* Mutant: the key is the entry's file_id alone.
BlobKey_FileIdOnly(object_id, file_id) == file_id

\* format!("{}_{}", object_id, file_id)
BlobKey(object_id, file_id) == object_id \o "_" \o file_id

\* The loop that fills file_ids, file_types and file_sizes.
FileIdsOf(metadata) ==
  [i \in 1..Len(metadata) |-> BlobKey(metadata[i].object_id, metadata[i].file_id)]
FileTypesOf(metadata) == [i \in 1..Len(metadata) |-> metadata[i].file_type]
FileSizesOf(metadata) == [i \in 1..Len(metadata) |-> metadata[i].file_size]

\* Mutant: the count is the length of the batch.
RECURSIVE UnnestInsert_CountAll(_, _, _, _, _, _)
UnnestInsert_CountAll(rows, w, ids, types, sizes, i) ==
  IF i > Len(ids)
    THEN [rows |-> rows, n |-> 0]
    ELSE LET conflict == Matching(rows, w, ids[i])
             next == IF conflict = {}
                       THEN rows \cup {Row(w, ids[i], types[i], sizes[i])}
                       ELSE rows
             rest == UnnestInsert_CountAll(next, w, ids, types, sizes, i + 1)
         IN [rows |-> rest.rows, n |-> rest.n + 1]

\* Mutant: a plain INSERT, without ON CONFLICT: one conflicting row fails the
\* statement and none of its rows is inserted.
RECURSIVE UnnestInsert_NoOnConflict(_, _, _, _, _, _)
UnnestInsert_NoOnConflict(rows, w, ids, types, sizes, i) ==
  IF i > Len(ids)
    THEN [rows |-> rows, n |-> 0]
    ELSE LET rest == UnnestInsert_NoOnConflict(rows, w, ids, types, sizes, i + 1)
         IN IF Matching(rows, w, ids[i]) = {} /\ rest.n = Len(ids) - i
              THEN [rows |-> rest.rows \cup {Row(w, ids[i], types[i], sizes[i])},
                    n |-> rest.n + 1]
              ELSE [rows |-> rows, n |-> 0]

\* Mutant: ON CONFLICT (workspace_id, file_id) DO UPDATE in the bulk statement.
RECURSIVE UnnestInsert_DoUpdate(_, _, _, _, _, _)
UnnestInsert_DoUpdate(rows, w, ids, types, sizes, i) ==
  IF i > Len(ids)
    THEN [rows |-> rows, n |-> 0]
    ELSE LET next == UpsertRows(rows, w, ids[i], types[i], sizes[i])
             rest == UnnestInsert_DoUpdate(next, w, ids, types, sizes, i + 1)
         IN [rows |-> rest.rows, n |-> rest.n + 1]

\* INSERT ... SELECT $1, unnest($2), unnest($3), unnest($4) ON CONFLICT DO NOTHING:
\* the rows are proposed in array order; a row whose key is already there
\* (from before, or from an earlier row of this statement) is skipped.
RECURSIVE UnnestInsert(_, _, _, _, _, _)
UnnestInsert(rows, w, ids, types, sizes, i) ==
  IF i > Len(ids)
    THEN [rows |-> rows, n |-> 0]
    ELSE LET conflict == Matching(rows, w, ids[i])
             next == IF conflict = {}
                       THEN rows \cup {Row(w, ids[i], types[i], sizes[i])}
                       ELSE rows
             rest == UnnestInsert(next, w, ids, types, sizes, i + 1)
         IN [rows |-> rest.rows,
             n |-> rest.n + (IF conflict = {} THEN 1 ELSE 0)]

BulkInsert(rows, w, metadata) ==
  UnnestInsert(rows, w, FileIdsOf(metadata), FileTypesOf(metadata),
               FileSizesOf(metadata), 1)

insert_blob_metadata_bulk(w, metadata) ==
  LET ids == FileIdsOf(metadata)
      result == BulkInsert(table, w, metadata)
  IN /\ \A i \in 1..Len(ids) : ~Locked(w, ids[i])
     /\ table' = result.rows
     /\ last' = [op |-> "insert_blob_metadata_bulk", workspace_id |-> w,
                 metadata |-> metadata, res |-> result.n]
     /\ inserted' = inserted \cup {<<w, EntryKey(metadata[i])>> : i \in 1..Len(metadata)}
     /\ origin' = [k \in {<<r.workspace_id, r.file_id>> : r \in result.rows \ table}
                      |-> [op |-> "insert_blob_metadata_bulk"]] @@ origin
     /\ UNCHANGED <<txOpen, txDeleted, txInserted, rcm>>

---------------------------------------------------------------------------
(* delete_blob_metadata and the caller's transaction *)

TxBegin ==
  /\ ~txOpen
  /\ txOpen' = TRUE
  /\ txDeleted' = {}
  /\ txInserted' = {}
  /\ last' = [op |-> "begin"]
  /\ UNCHANGED <<table, inserted, origin, rcm>>

\* Mutant: WHERE file_id = $2, without the workspace.
DeleteAffected_AnyWorkspace(rows, deleted, w, f) ==
  {r \in rows : r.file_id = f /\ <<r.workspace_id, r.file_id>> \notin deleted}

\* Mutant: the two bind parameters in each other's place.
DeleteAffected_SwappedBinds(rows, deleted, w, f) ==
  {r \in rows : r.workspace_id = f /\ r.file_id = w /\ <<f, w>> \notin deleted}

\* DELETE FROM af_blob_metadata WHERE workspace_id = $1 AND file_id = $2,
\* executed on the caller's transaction: the rows it removes, which are those
\* the transaction has not removed already.
DeleteAffected(rows, deleted, w, f) ==
  {r \in Matching(rows, w, f) : <<r.workspace_id, r.file_id>> \notin deleted}

\* Mutant: the DELETE executed on the pool, committed on its own at once.
delete_blob_metadata_OnPool(w, f) ==
  /\ txOpen
  /\ table' = table \ Matching(table, w, f)
  /\ last' = [op |-> "delete_blob_metadata", workspace_id |-> w, file_id |-> f,
              n |-> Cardinality(Matching(table, w, f)), res |-> "Ok"]
  /\ origin' = [k \in DOMAIN origin \ {<<w, f>>} |-> origin[k]]
  /\ UNCHANGED <<txOpen, txDeleted, txInserted, inserted, rcm>>

delete_blob_metadata(w, f) ==
  LET hit == DeleteAffected(table, txDeleted, w, f)
      pending == Matching(txInserted, w, f)
  IN
  /\ txOpen
  /\ hit = {} \/ Cardinality(txDeleted) < MaxTxDeletes
  /\ txDeleted' = txDeleted \cup {<<r.workspace_id, r.file_id>> : r \in hit}
  /\ txInserted' = txInserted \ pending
  /\ last' = [op |-> "delete_blob_metadata", workspace_id |-> w, file_id |-> f,
              n |-> Cardinality(hit) + Cardinality(pending), res |-> "Ok"]
  /\ UNCHANGED <<table, txOpen, inserted, origin, rcm>>

\* What a statement of the open transaction sees: the committed rows the
\* transaction has not deleted, and the rows it has inserted.
TxView(rows, deleted, pending) ==
  {r \in rows : <<r.workspace_id, r.file_id>> \notin deleted} \cup pending

\* Mutant: the statement is committed on its own although the executor is the
\* caller's transaction.
insert_blob_metadata_bulk_tx_AutoCommit(w, metadata) ==
  LET result == BulkInsert(table, w, metadata)
  IN /\ txOpen
     /\ \A i \in 1..Len(metadata) : ~Locked(w, EntryKey(metadata[i]))
     /\ table' = result.rows
     /\ last' = [op |-> "insert_blob_metadata_bulk_tx", workspace_id |-> w,
                 metadata |-> metadata, res |-> result.n]
     /\ inserted' = inserted \cup {<<w, EntryKey(metadata[i])>> : i \in 1..Len(metadata)}
     /\ origin' = [k \in {<<r.workspace_id, r.file_id>> : r \in result.rows \ table}
                      |-> [op |-> "insert_blob_metadata_bulk"]] @@ origin
     /\ UNCHANGED <<txOpen, txDeleted, txInserted, rcm>>

\* insert_blob_metadata_bulk with the caller's transaction as its executor:
\* the rows it adds stay pending until the transaction ends.
insert_blob_metadata_bulk_tx(w, metadata) ==
  LET view == TxView(table, txDeleted, txInserted)
      result == BulkInsert(view, w, metadata)
  IN /\ txOpen
     /\ Cardinality(txInserted \cup (result.rows \ view)) <= MaxTxInserts
     /\ txInserted' = txInserted \cup (result.rows \ view)
     /\ last' = [op |-> "insert_blob_metadata_bulk_tx", workspace_id |-> w,
                 metadata |-> metadata, res |-> result.n]
     /\ inserted' = inserted \cup {<<w, EntryKey(metadata[i])>> : i \in 1..Len(metadata)}
     /\ UNCHANGED <<table, txOpen, txDeleted, origin, rcm>>

TxCommit ==
  /\ txOpen
  /\ table' = TxView(table, txDeleted, txInserted)
  /\ txOpen' = FALSE
  /\ txDeleted' = {}
  /\ txInserted' = {}
  /\ last' = [op |-> "commit", deleted |-> txDeleted, inserted |-> txInserted]
  /\ origin' = [k \in {<<r.workspace_id, r.file_id>> : r \in txInserted}
                   |-> [op |-> "insert_blob_metadata_bulk"]]
                @@ [k \in DOMAIN origin \ txDeleted |-> origin[k]]
  /\ UNCHANGED <<inserted, rcm>>

TxRollback ==
  /\ txOpen
  /\ txOpen' = FALSE
  /\ txDeleted' = {}
  /\ txInserted' = {}
  /\ last' = [op |-> "rollback", deleted |-> txDeleted, inserted |-> txInserted]
  /\ UNCHANGED <<table, inserted, origin, rcm>>

---------------------------------------------------------------------------
(* Reads *)

\* SELECT EXISTS (SELECT 1 ... WHERE workspace_id = $1 AND file_id = $2)
Exists(rows, w, f) == Matching(rows, w, f) # {}

is_blob_metadata_exists(w, f) ==
  /\ last' = [op |-> "is_blob_metadata_exists", workspace_id |-> w, file_id |-> f,
              res |-> Exists(table, w, f)]
  /\ UNCHANGED <<table, txOpen, txDeleted, txInserted, inserted, origin, rcm>>

\* SELECT * ... WHERE workspace_id = $1 AND file_id = $2, fetch_one:
\* no row is the RowNotFound error, otherwise a row of the result.
GetResults(rows, w, f) ==
  IF Matching(rows, w, f) = {}
    THEN {[err |-> "NotFound"]}
    ELSE {[ok |-> r] : r \in Matching(rows, w, f)}

get_blob_metadata(w, f) ==
  /\ \E res \in GetResults(table, w, f) :
       last' = [op |-> "get_blob_metadata", workspace_id |-> w, file_id |-> f,
                res |-> res]
  /\ UNCHANGED <<table, txOpen, txDeleted, txInserted, inserted, origin, rcm>>

\* Mutant: the sum kept in an i64 accumulator, wrapping at WordBits bits.
RECURSIVE SumSizes_I64(_)
SumSizes_I64(rows) ==
  IF rows = {} THEN 0
  ELSE LET r == CHOOSE x \in rows : TRUE IN
       ToI64((r.file_size + SumSizes_I64(rows \ {r})) % 2^WordBits)

\* SUM(file_size) over a set of rows, in the store's numeric type (unbounded).
RECURSIVE SumSizes(_)
SumSizes(rows) ==
  IF rows = {} THEN 0
  ELSE LET r == CHOOSE x \in rows : TRUE IN r.file_size + SumSizes(rows \ {r})

\* Decimal::to_u64: None for a negative value or one above u64::MAX.
ToU64(d) == IF d < 0 \/ d > U64Max THEN [none |-> TRUE] ELSE [some |-> d]

\* SELECT SUM(file_size) ... WHERE workspace_id = $1; NULL over no rows.
UsageSize(rows, w) ==
  LET mine == RowsOf(rows, w) IN
  IF mine = {} THEN 0
  ELSE LET u == ToU64(SumSizes(mine)) IN
       IF "some" \in DOMAIN u THEN u.some ELSE 0

get_workspace_usage_size(w) ==
  /\ last' = [op |-> "get_workspace_usage_size", workspace_id |-> w,
              res |-> UsageSize(table, w)]
  /\ UNCHANGED <<table, txOpen, txDeleted, txInserted, inserted, origin, rcm>>

\* fetch_all of a SELECT without ORDER BY: the rows in any order.
FetchAll(S) ==
  {q \in [1..Cardinality(S) -> S] : \A i, j \in DOMAIN q : q[i] = q[j] => i = j}

\* SELECT * FROM af_blob_metadata WHERE workspace_id = $1
get_all_workspace_blob_metadata(w) ==
  /\ \E q \in FetchAll(RowsOf(table, w)) :
       last' = [op |-> "get_all_workspace_blob_metadata", workspace_id |-> w,
                res |-> q]
  /\ UNCHANGED <<table, txOpen, txDeleted, txInserted, inserted, origin, rcm>>

\* Mutant: DELETE ... RETURNING file_id in place of the SELECT.
get_all_workspace_blob_ids_Draining(w) ==
  /\ ~txOpen
  /\ \E q \in FetchAll(RowsOf(table, w)) :
       last' = [op |-> "get_all_workspace_blob_ids", workspace_id |-> w,
                res |-> [i \in DOMAIN q |-> q[i].file_id]]
  /\ table' = table \ RowsOf(table, w)
  /\ origin' = [k \in {k \in DOMAIN origin : k[1] # w} |-> origin[k]]
  /\ UNCHANGED <<txOpen, txDeleted, txInserted, inserted, rcm>>

\* SELECT file_id FROM af_blob_metadata WHERE workspace_id = $1, then
\* .map(|record| record.file_id).collect()
get_all_workspace_blob_ids(w) ==
  /\ \E q \in FetchAll(RowsOf(table, w)) :
       last' = [op |-> "get_all_workspace_blob_ids", workspace_id |-> w,
                res |-> [i \in DOMAIN q |-> q[i].file_id]]
  /\ UNCHANGED <<table, txOpen, txDeleted, txInserted, inserted, origin, rcm>>

---------------------------------------------------------------------------
(* redis_connection_manager *)

Callers == 1..NumCallers

max_attempts == 5
initial_wait_time == 500

\* let mut attempt = 0; let mut wait_time = 500; and the loop entered
rcm_start ==
  [pc |-> "connect", attempt |-> 0, wait_time |-> initial_wait_time,
   tries |-> 0, slept |-> <<>>]

\* Mutant: attempt > max_attempts
Exhausted_OffByOne(attempt) == attempt > max_attempts

\* if attempt >= max_attempts
Exhausted(attempt) == attempt >= max_attempts

\* get_connection_manager() gives Ok(manager): return manager
ConnectOk(c) ==
  /\ rcm[c].pc = "connect"
  /\ rcm' = [rcm EXCEPT ![c].pc = "returned", ![c].tries = @ + 1]
  /\ UNCHANGED <<table, txOpen, txDeleted, txInserted, last, inserted, origin>>

\* get_connection_manager() gives Err(err): panic when the attempts are
\* used up, otherwise go on to the sleep
ConnectErr(c) ==
  /\ rcm[c].pc = "connect"
  /\ rcm' = [rcm EXCEPT ![c].pc = IF Exhausted(rcm[c].attempt)
                                    THEN "panicked" ELSE "sleep",
                        ![c].tries = @ + 1]
  /\ UNCHANGED <<table, txOpen, txDeleted, txInserted, last, inserted, origin>>

\* sleep(Duration::from_millis(wait_time)).await; wait_time *= 2; attempt += 1
Sleep(c) ==
  /\ rcm[c].pc = "sleep"
  /\ rcm' = [rcm EXCEPT ![c].pc = "connect",
                        ![c].slept = Append(@, rcm[c].wait_time),
                        ![c].wait_time = @ * 2,
                        ![c].attempt = @ + 1]
  /\ UNCHANGED <<table, txOpen, txDeleted, txInserted, last, inserted, origin>>

---------------------------------------------------------------------------
(* The ledger under concurrent callers *)

Init ==
  /\ table = {}
  /\ txOpen = FALSE
  /\ txDeleted = {}
  /\ txInserted = {}
  /\ last = [op |-> "none"]
  /\ inserted = {}
  /\ origin = <<>>
  /\ rcm = [c \in Callers |-> rcm_start]

Next ==
  \/ \E w \in Workspaces : \E f \in FileIds(w), v \in UpsertValues :
       insert_blob_metadata(w, f, v[1], v[2])
  \/ \E w \in Workspaces : \E m \in Batches(BulkInsertMeta(w)) :
       insert_blob_metadata_bulk(w, m)
  \/ TxBegin
  \/ \E w \in Workspaces : \E f \in FileIds(w) : delete_blob_metadata(w, f)
  \/ \E w \in Workspaces : \E m \in Batches(BulkInsertMeta(w)) :
       insert_blob_metadata_bulk_tx(w, m)
  \/ TxCommit
  \/ TxRollback
  \/ \E w \in Workspaces, f \in ProbeIds : is_blob_metadata_exists(w, f)
  \/ \E w \in Workspaces, f \in ProbeIds : get_blob_metadata(w, f)
  \/ \E w \in Workspaces : get_all_workspace_blob_metadata(w)
  \/ \E w \in Workspaces : get_all_workspace_blob_ids(w)
  \/ \E w \in Workspaces : get_workspace_usage_size(w)

Spec == Init /\ [][Next]_vars

---------------------------------------------------------------------------
(* redis_connection_manager called concurrently *)

rcm_step(c) == ConnectOk(c) \/ ConnectErr(c) \/ Sleep(c)

NextRedis ==
  \/ \E c \in Callers : ConnectOk(c)
  \/ \E c \in Callers : ConnectErr(c)
  \/ \E c \in Callers : Sleep(c)

\* Every connection attempt returns and every sleep ends: a call that can
\* take a step takes one.
SpecRedis ==
  Init /\ [][NextRedis]_vars /\ \A c \in Callers : WF_vars(rcm_step(c))

---------------------------------------------------------------------------
(* The ledger filled by per-item inserts of large sizes, and its usage *)

UsageFileIds == {"f1", "f2", "f3"}
\* file_size: usize arguments up to and just above i64::MAX
UsageSizes == {1, I64Max, I64Max + 1}

NextUsage ==
  \/ \E w \in Workspaces, f \in UsageFileIds, s \in UsageSizes :
       insert_blob_metadata(w, f, "bin", s)
  \/ \E w \in Workspaces : get_workspace_usage_size(w)

SpecUsage == Init /\ [][NextUsage]_vars

---------------------------------------------------------------------------
(* insert_blob_metadata against a store that reports any affected-row count *)

MaxCount == 2
ReportedCounts == 0..MaxCount

NextReported ==
  \/ \E w \in Workspaces : \E f \in FileIds(w) : \E v \in UpsertValues :
       \E n \in ReportedCounts : insert_blob_metadata_reported(w, f, v[1], v[2], n)
  \/ \E w \in Workspaces, f \in ProbeIds : get_blob_metadata(w, f)

SpecReported == Init /\ [][NextReported]_vars

---------------------------------------------------------------------------
(* insert_blob_metadata_bulk on batches that may repeat an entry *)

AllBatches(Metas) == UNION {[1..n -> Metas] : n \in 0..MaxBatch}

NextBulk ==
  \/ \E w \in Workspaces : \E m \in AllBatches(BulkInsertMeta(w)) :
       insert_blob_metadata_bulk(w, m)
  \/ \E w \in Workspaces : \E f \in FileIds(w), v \in UpsertValues :
       insert_blob_metadata(w, f, v[1], v[2])
  \/ \E w \in Workspaces, f \in ProbeIds : get_blob_metadata(w, f)
  \/ \E w \in Workspaces : get_all_workspace_blob_ids(w)

SpecBulk == Init /\ [][NextBulk]_vars

---------------------------------------------------------------------------
(* Properties *)

KeyOf(r) == <<r.workspace_id, r.file_id>>
NotFound == [err |-> "NotFound"]
\* get_blob_metadata(w, f) can only return the row (w, f, t, s).
GetReturns(rows, w, f, t, s) == GetResults(rows, w, f) = {[ok |-> Row(w, f, t, s)]}
\* The derived keys of a batch are pairwise distinct.
DistinctKeys(m) ==
  \A i, j \in 1..Len(m) : EntryKey(m[i]) = EntryKey(m[j]) => i = j

\* C1: when insert_blob_metadata(w, f, t2, s2) runs on a key whose row was
\* written by an earlier insert_blob_metadata with no other writer since,
\* get_blob_metadata(w, f) then returns file_type t2 and file_size s2.
C1_SecondUpsertReplaces ==
  [][\A w \in Workspaces : \A f \in FileIds(w), v \in UpsertValues :
       (/\ OriginOf(<<w, f>>).op = "insert_blob_metadata"
        /\ insert_blob_metadata(w, f, v[1], v[2]))
         => GetReturns(table', w, f, v[1], v[2])]_vars

\* C1, as far as the code goes: the second call replaces both values, and the
\* size read back is the argument after its cast to i64.
C1_SecondUpsertReplacesUpToCast ==
  [][\A w \in Workspaces : \A f \in FileIds(w), v \in UpsertValues :
       (/\ OriginOf(<<w, f>>).op = "insert_blob_metadata"
        /\ insert_blob_metadata(w, f, v[1], v[2]))
         => GetReturns(table', w, f, v[1], ToI64(v[2]))]_vars

\* C2: a bulk insert leaves every row whose key an entry derives, and which
\* is there when the call runs, with the file_type and file_size it had, and
\* such entries are not counted in the returned number.
C2_BulkKeepsExistingRows ==
  [][last'.op = "insert_blob_metadata_bulk" =>
         LET w == last'.workspace_id
             m == last'.metadata
             present == {i \in 1..Len(m) : Matching(table, w, EntryKey(m[i])) # {}}
         IN /\ \A i \in present :
                 Matching(table', w, EntryKey(m[i])) = Matching(table, w, EntryKey(m[i]))
            /\ last'.res <= Len(m) - Cardinality(present)]_vars

\* C2 witness: a bulk insert has returned 0 for a one-entry batch whose key
\* holds a row written by insert_blob_metadata, with another file_type and
\* file_size than the entry's.
C2_Witness ==
  /\ last.op = "insert_blob_metadata_bulk"
  /\ Len(last.metadata) = 1
  /\ last.res = 0
  /\ LET e == last.metadata[1]
         k == <<last.workspace_id, EntryKey(e)>>
     IN /\ OriginOf(k).op = "insert_blob_metadata"
        /\ \E r \in Matching(table, k[1], k[2]) :
             r.file_type # e.file_type /\ r.file_size # e.file_size

\* C3: one insert_blob_metadata(w, k, t, s) and one bulk insert deriving k, in
\* either order and with no other writer on (w, k): once the second of them
\* has completed, the row of (w, k) holds the upsert's t and s.
C3_BulkNeverClobbersUpsert ==
  [][\A w \in Workspaces : \A f \in FileIds(w) :
       /\ \A v \in UpsertValues :
            (/\ OriginOf(<<w, f>>).op = "insert_blob_metadata_bulk"
             /\ insert_blob_metadata(w, f, v[1], v[2]))
              => Matching(table', w, f) = {Row(w, f, v[1], v[2])}
       /\ (/\ OriginOf(<<w, f>>).op = "insert_blob_metadata"
           /\ last'.op = "insert_blob_metadata_bulk"
           /\ last'.workspace_id = w
           /\ \E i \in 1..Len(last'.metadata) : EntryKey(last'.metadata[i]) = f)
            => Matching(table', w, f) =
                 {Row(w, f, origin[<<w, f>>].file_type, origin[<<w, f>>].file_size)}]_vars

\* C3, as far as the code goes: in both orders the row holds the upsert's
\* file_type and its file_size after the cast to i64; the bulk insert's
\* values are not in it.
C3_BulkNeverClobbersUpToCast ==
  [][\A w \in Workspaces : \A f \in FileIds(w) :
       /\ \A v \in UpsertValues :
            (/\ OriginOf(<<w, f>>).op = "insert_blob_metadata_bulk"
             /\ insert_blob_metadata(w, f, v[1], v[2]))
              => Matching(table', w, f) = {Row(w, f, v[1], ToI64(v[2]))}
       /\ (/\ OriginOf(<<w, f>>).op = "insert_blob_metadata"
           /\ last'.op = "insert_blob_metadata_bulk"
           /\ last'.workspace_id = w
           /\ \E i \in 1..Len(last'.metadata) : EntryKey(last'.metadata[i]) = f)
            => Matching(table', w, f) =
                 {Row(w, f, origin[<<w, f>>].file_type, ToI64(origin[<<w, f>>].file_size))}]_vars

\* C4 as stated: a bulk insert of N entries with pairwise distinct derived
\* keys has returned N, and get_blob_metadata succeeds for each of the keys.
C4_DistinctKeysReturnN ==
  (last.op = "insert_blob_metadata_bulk" /\ DistinctKeys(last.metadata)) =>
    /\ last.res = Len(last.metadata)
    /\ \A i \in 1..Len(last.metadata) :
         NotFound \notin GetResults(table, last.workspace_id, EntryKey(last.metadata[i]))

\* C4 amended: a bulk insert of N entries with pairwise distinct derived keys,
\* none of them a row of the workspace when the call runs, returns N; and with
\* pairwise distinct keys, present before or not, get_blob_metadata succeeds
\* for each of them after the call.
C4_FreshDistinctKeysReturnN ==
  [][(last'.op = "insert_blob_metadata_bulk" /\ DistinctKeys(last'.metadata)) =>
       LET w == last'.workspace_id
           m == last'.metadata
       IN
         /\ \A i \in 1..Len(m) : NotFound \notin GetResults(table', w, EntryKey(m[i]))
         /\ (\A i \in 1..Len(m) : Matching(table, w, EntryKey(m[i])) = {})
              => last'.res = Len(m)]_vars

\* C4 witness: a bulk insert of two entries with distinct keys has returned 2.
C4_Witness ==
  /\ last.op = "insert_blob_metadata_bulk"
  /\ Len(last.metadata) = 2
  /\ DistinctKeys(last.metadata)
  /\ last.res = 2
  /\ \A i \in 1..2 :
       NotFound \notin GetResults(table, last.workspace_id, EntryKey(last.metadata[i]))

\* The sum of file_size over the rows of workspace w, as an exact integer.
RECURSIVE Total(_)
Total(S) ==
  IF S = {} THEN 0
  ELSE LET r == CHOOSE x \in S : TRUE IN r.file_size + Total(S \ {r})
ExactUsage(w) == Total({r \in table : r.workspace_id = w})

\* C5 as stated, on tables where every file_size is non-negative as the data
\* model requires: get_workspace_usage_size(w) equals the sum of file_size
\* over the rows of w, and is 0 when w has no row.
C5_UsageEqualsSum ==
  (\A r \in table : r.file_size >= 0) =>
    \A w \in Workspaces : UsageSize(table, w) = ExactUsage(w)

\* C5 amended: get_workspace_usage_size(w) equals the sum of file_size over
\* exactly the rows of w whenever that sum lies in 0..U64Max, and is 0
\* otherwise and when w has no row.
C5_UsageEqualsSumInRange ==
  \A w \in Workspaces :
    /\ (\A r \in table : r.workspace_id # w) => UsageSize(table, w) = 0
    /\ UsageSize(table, w) =
         IF ExactUsage(w) \in 0..U64Max THEN ExactUsage(w) ELSE 0

\* C5 witness: get_workspace_usage_size has returned the non-zero sum of three
\* rows of its workspace while the other workspace holds rows of another sum.
C5_Witness ==
  /\ last.op = "get_workspace_usage_size"
  /\ Cardinality({r \in table : r.workspace_id = last.workspace_id}) = 3
  /\ last.res = ExactUsage(last.workspace_id)
  /\ last.res > 0
  /\ \E w \in Workspaces :
       /\ w # last.workspace_id
       /\ ExactUsage(w) \notin {0, last.res}

C7_NeverInsertedIsAbsent ==
  /\ \A w \in Workspaces, f \in ProbeIds \cup {r.file_id : r \in table} :
       <<w, f>> \notin inserted =>
         /\ Exists(table, w, f) = FALSE
         /\ GetResults(table, w, f) = {NotFound}
  /\ last.op = "is_blob_metadata_exists"
       /\ <<last.workspace_id, last.file_id>> \notin inserted => last.res = FALSE
  /\ last.op = "get_blob_metadata"
       /\ <<last.workspace_id, last.file_id>> \notin inserted => last.res = NotFound

\* C7 witness: get_blob_metadata has just failed with NotFound on a key never
\* inserted, in a workspace that holds a row and while another workspace
\* holds a row under the very same file_id.
C7_Witness ==
  /\ last.op = "get_blob_metadata"
  /\ last.res = NotFound
  /\ <<last.workspace_id, last.file_id>> \notin inserted
  /\ RowsOf(table, last.workspace_id) # {}
  /\ \E r \in table : r.file_id = last.file_id

\* C8: the table never holds two rows with one (workspace_id, file_id), and a
\* key whose row was last written by insert_blob_metadata, with no committed
\* delete since, has exactly one row.
C8_OneRowPerKey ==
  /\ \A r1, r2 \in table : KeyOf(r1) = KeyOf(r2) => r1 = r2
  /\ \A k \in DOMAIN origin :
       origin[k].op = "insert_blob_metadata" =>
         Cardinality(Matching(table, k[1], k[2])) = 1
  /\ last.op = "insert_blob_metadata" =>
       Cardinality(Matching(table, last.workspace_id, last.file_id)) = 1

\* C8 witness: insert_blob_metadata has completed while the table holds three
\* rows, one of them written by a bulk insert, and the open transaction has a
\* delete pending.
C8_Witness ==
  /\ last.op = "insert_blob_metadata"
  /\ txOpen /\ txDeleted # {}
  /\ Cardinality(table) >= 3
  /\ \E r \in table : \E k \in DOMAIN origin :
       /\ KeyOf(r) = k /\ origin[k].op = "insert_blob_metadata_bulk"

\* C11: every row a bulk insert adds to workspace w is stored under the key
\* object_id, one underscore, file_id of an entry of the batch ("obj1" and
\* "abc" give "obj1_abc") and holds that same entry's file_type and
\* file_size; and every entry whose key had no row gets such a row.
C11_BulkRowIsItsEntry ==
  [][last'.op = "insert_blob_metadata_bulk" =>
       LET w == last'.workspace_id
           m == last'.metadata
       IN /\ BlobKey("obj1", "abc") = "obj1_abc"
          /\ \A r \in table' \ table :
               \E i \in 1..Len(m) :
                 r = Row(w, m[i].object_id \o "_" \o m[i].file_id,
                         m[i].file_type, m[i].file_size)
          /\ \A i \in 1..Len(m) :
               Matching(table, w, m[i].object_id \o "_" \o m[i].file_id) = {} =>
                 Matching(table', w, m[i].object_id \o "_" \o m[i].file_id) # {}]_vars

\* C11 witness: a bulk insert of two entries has added two rows, "a_b_c" with
\* the values of the entry ("a_b", "c") and "a_c" with those of ("a", "c"),
\* the two entries differing in file_type and file_size.
C11_Witness ==
  /\ last.op = "insert_blob_metadata_bulk"
  /\ last.res = 2
  /\ Row(last.workspace_id, "a_b_c", "gif", -1) \in table
  /\ Row(last.workspace_id, "a_c", "jpg", 2) \in table
  /\ last.metadata[1].object_id = "a_b" /\ last.metadata[1].file_id = "c"
  /\ last.metadata[2].object_id = "a" /\ last.metadata[2].file_id = "c"

\* C12: whenever the store executes the upsert, insert_blob_metadata returns
\* success whatever affected-row count it reports (0, 1 or more); a count other
\* than 1 is logged and nothing else.
C12_AnyCountReturnsOk ==
  last.op = "insert_blob_metadata" =>
    /\ last.n \in ReportedCounts
    /\ last.res = "Ok"
    /\ last.logged = (last.n # 1)

\* C12 witness: the store reported 0 affected rows, the call logged it and
\* returned success.
C12_Witness ==
  /\ last.op = "insert_blob_metadata"
  /\ last.n = 0
  /\ last.logged
  /\ last.res = "Ok"

\* C13: delete_blob_metadata leaves the caller's transaction open and the
\* committed rows as they are.  While the transaction stays open the rows it
\* has deleted are still there with their values and none of the rows it has
\* inserted is visible.  A commit removes every deleted row and adds every
\* inserted row in the same step; a rollback changes no row at all.
C13_DeleteEndsWithItsTransaction ==
  [][/\ (last'.op = "delete_blob_metadata" =>
          txOpen /\ txOpen' /\ table' = table)
     /\ ((txOpen /\ txOpen') =>
          /\ \A k \in txDeleted' :
               /\ Matching(table', k[1], k[2]) # {}
               /\ k \in txDeleted =>
                    Matching(table', k[1], k[2]) = Matching(table, k[1], k[2])
          /\ \A r \in txInserted' :
               r \in table' => <<r.workspace_id, r.file_id>> \in txDeleted')
     /\ (last'.op = "commit" =>
          /\ txOpen /\ ~txOpen'
          /\ \A r \in txInserted : r \in table'
          /\ \A r \in table :
               r \in table' <=>
                 (<<r.workspace_id, r.file_id>> \notin txDeleted \/ r \in txInserted)
          /\ \A r \in table' : r \in table \/ r \in txInserted)
     /\ (last'.op = "rollback" =>
          txOpen /\ ~txOpen' /\ table' = table)]_vars

\* C13 witness: a transaction that deleted the row of one key and inserted a
\* row under another has committed: the first key has no row and the second
\* has its row.
C13_Witness ==
  /\ last.op = "commit"
  /\ \E k \in last.deleted : \E r \in last.inserted :
       /\ <<r.workspace_id, r.file_id>> # k
       /\ r \in table
       /\ Matching(table, k[1], k[2]) = {}

\* C14 as stated: every insert_blob_metadata_bulk call takes effect on its
\* own, whatever its executor: when it returns, each key of the batch has a
\* committed row.
C14_BulkAlwaysStandsAlone ==
  [][last'.op \in {"insert_blob_metadata_bulk", "insert_blob_metadata_bulk_tx"} =>
       \A i \in 1..Len(last'.metadata) :
         Matching(table', last'.workspace_id, EntryKey(last'.metadata[i])) # {}]_vars

\* C14 amended: insert_blob_metadata and insert_blob_metadata_bulk on the pool
\* take effect on their own: the row is committed when the call returns,
\* transaction open or not, and no rollback removes a committed row.  The
\* reads leave the transaction as it is.  insert_blob_metadata_bulk on the
\* caller's transaction takes part in it like delete_blob_metadata: it
\* changes no committed row, its rows appear at the commit and are dropped by
\* a rollback.
C14_PoolCallsStandAlone ==
  [][/\ (last'.op = "insert_blob_metadata" =>
          /\ \E r \in table' : /\ r.workspace_id = last'.workspace_id
                                /\ r.file_id = last'.file_id
                                /\ r.file_type = last'.file_type
          /\ UNCHANGED <<txOpen, txDeleted, txInserted>>)
     /\ (last'.op = "insert_blob_metadata_bulk" =>
          /\ \A i \in 1..Len(last'.metadata) :
               Matching(table', last'.workspace_id, EntryKey(last'.metadata[i])) # {}
          /\ UNCHANGED <<txOpen, txDeleted, txInserted>>)
     /\ (last'.op \in {"is_blob_metadata_exists", "get_blob_metadata",
                       "get_all_workspace_blob_metadata",
                       "get_all_workspace_blob_ids", "get_workspace_usage_size"} =>
          UNCHANGED <<table, txOpen, txDeleted, txInserted>>)
     /\ (last'.op = "insert_blob_metadata_bulk_tx" =>
          /\ txOpen /\ txOpen' /\ table' = table
          /\ last'.res = Cardinality(txInserted' \ txInserted))
     /\ (last'.op = "commit" => \A r \in txInserted : r \in table')
     /\ (last'.op = "rollback" =>
          /\ table' = table
          /\ txInserted' = {})]_vars

\* C14 witness: a rollback has dropped a row that insert_blob_metadata_bulk
\* inserted on the caller's transaction, while a row that insert_blob_metadata
\* wrote during that transaction is still there.
C14_Witness ==
  /\ last.op = "rollback"
  /\ \E r \in last.inserted : Matching(table, r.workspace_id, r.file_id) = {}
  /\ \E r \in table :
       /\ <<r.workspace_id, r.file_id>> \in DOMAIN origin
       /\ origin[<<r.workspace_id, r.file_id>>].op = "insert_blob_metadata"

\* C16: a step of is_blob_metadata_exists, get_blob_metadata,
\* get_all_workspace_blob_metadata, get_all_workspace_blob_ids or
\* get_workspace_usage_size, NotFound results included, leaves every row and
\* the open transaction's pending writes as they are; the rows change only in
\* a step of insert_blob_metadata or insert_blob_metadata_bulk, or in the
\* commit of a transaction that holds a delete_blob_metadata or an
\* insert_blob_metadata_bulk.
C16_ReadsChangeNothing ==
  [][/\ (last'.op \in {"is_blob_metadata_exists", "get_blob_metadata",
                       "get_all_workspace_blob_metadata",
                       "get_all_workspace_blob_ids", "get_workspace_usage_size"} =>
          /\ table' = table
          /\ txDeleted' = txDeleted
          /\ txInserted' = txInserted)
     /\ (table' # table =>
          \/ last'.op \in {"insert_blob_metadata", "insert_blob_metadata_bulk"}
          \/ /\ last'.op = "commit"
             /\ last'.deleted # {} \/ last'.inserted # {})
     /\ ((txDeleted' # txDeleted \/ txInserted' # txInserted) =>
          last'.op \in {"delete_blob_metadata", "insert_blob_metadata_bulk_tx",
                        "begin", "commit", "rollback"})]_vars

\* C16 witness: get_blob_metadata has just failed with NotFound on a table
\* that holds rows, while a transaction with a pending deletion is open.
C16_Witness ==
  /\ last.op = "get_blob_metadata"
  /\ last.res = NotFound
  /\ table # {}
  /\ txOpen /\ txDeleted # {}

\* C17: a step of insert_blob_metadata, insert_blob_metadata_bulk (on the
\* pool or on the transaction) or delete_blob_metadata with workspace w adds,
\* changes or removes, now or pending, only rows of w: for every other
\* workspace w2 the rows, both listings, the usage and the pending writes are
\* the same after the step as before.  A commit changes only workspaces in
\* which its transaction deleted or inserted.
C17_WorkspaceIsolation ==
  [][LET Same(w2) ==
           /\ {r \in table' : r.workspace_id = w2} = {r \in table : r.workspace_id = w2}
           /\ FetchAll(RowsOf(table', w2)) = FetchAll(RowsOf(table, w2))
           /\ {[i \in DOMAIN q |-> q[i].file_id] : q \in FetchAll(RowsOf(table', w2))}
                = {[i \in DOMAIN q |-> q[i].file_id] : q \in FetchAll(RowsOf(table, w2))}
           /\ UsageSize(table', w2) = UsageSize(table, w2)
     IN
     /\ (last'.op \in {"insert_blob_metadata", "insert_blob_metadata_bulk",
                       "insert_blob_metadata_bulk_tx", "delete_blob_metadata"} =>
          /\ \A r \in (table' \ table) \cup (table \ table') :
               r.workspace_id = last'.workspace_id
          /\ \A w2 \in Workspaces \ {last'.workspace_id} :
               /\ Same(w2)
               /\ {k \in txDeleted' : k[1] = w2} = {k \in txDeleted : k[1] = w2}
               /\ {r \in txInserted' : r.workspace_id = w2}
                    = {r \in txInserted : r.workspace_id = w2})
     /\ (last'.op = "commit" =>
          \A w2 \in Workspaces :
            ((\A k \in txDeleted : k[1] # w2) /\
             (\A r \in txInserted : r.workspace_id # w2)) => Same(w2))]_vars

\* C17 witness: the file_id "a_c" had a row in both workspaces; a committed
\* delete removed the one of "w1" and the one of "w2" is still there.
C17_Witness ==
  /\ last.op = "commit"
  /\ <<"w1", "a_c">> \in last.deleted
  /\ Matching(table, "w1", "a_c") = {}
  /\ Matching(table, "w2", "a_c") # {}

\* C18: an insert_blob_metadata_bulk call returns the number of distinct
\* derived keys of its batch that had no row in w before the call.  Each of
\* those keys, derived by one entry or by several, has exactly one row after
\* the call, holding the file_type and file_size of one of the entries that
\* derive it, and no other row is added.
C18_CountIsNewDistinctKeys ==
  [][last'.op = "insert_blob_metadata_bulk" =>
       LET w == last'.workspace_id
           m == last'.metadata
           keys == {EntryKey(m[i]) : i \in 1..Len(m)}
           fresh == {k \in keys : \A r \in table : ~(r.workspace_id = w /\ r.file_id = k)}
       IN /\ last'.res = Cardinality(fresh)
          /\ Cardinality(table' \ table) = Cardinality(fresh)
          /\ \A k \in fresh :
               /\ Cardinality({r \in table' : r.workspace_id = w /\ r.file_id = k}) = 1
               /\ \A r \in table' :
                    (r.workspace_id = w /\ r.file_id = k) =>
                      \E i \in 1..Len(m) :
                        /\ EntryKey(m[i]) = k
                        /\ r.file_type = m[i].file_type
                        /\ r.file_size = m[i].file_size]_vars

\* C18 witness: a batch of ("a_b", "c") and ("a", "b_c"), both deriving
\* "a_b_c", on a workspace without that key has returned 1 and the key has
\* one row.
C18_Witness ==
  /\ last.op = "insert_blob_metadata_bulk"
  /\ Len(last.metadata) = 2
  /\ last.metadata[1].object_id = "a_b" /\ last.metadata[1].file_id = "c"
  /\ last.metadata[2].object_id = "a" /\ last.metadata[2].file_id = "b_c"
  /\ last.res = 1
  /\ Cardinality(Matching(table, last.workspace_id, "a_b_c")) = 1
  /\ Cardinality(table) = 1

\* C15: insert_blob_metadata_bulk on the pool is one step among the steps of
\* the concurrent readers and writers: in the state it leaves, which is the
\* first one a reader can observe after the state before the call, every key
\* of the batch has its row, so existence, get, both listings and the usage
\* see the whole batch; the rows added are as many as the returned count, and
\* every row from before, those that made an entry be skipped included, is
\* still there unchanged.
C15_BulkIsOneStatement ==
  [][last'.op = "insert_blob_metadata_bulk" =>
       LET w == last'.workspace_id
           m == last'.metadata
           keys == {EntryKey(m[i]) : i \in 1..Len(m)}
       IN /\ table \subseteq table'
          /\ Cardinality(table' \ table) = last'.res
          /\ \A k \in keys :
               /\ Exists(table', w, k)
               /\ NotFound \notin GetResults(table', w, k)
               /\ \A q \in FetchAll(RowsOf(table', w)) :
                    \E i \in DOMAIN q : q[i].file_id = k
          /\ LET sum == SumSizes(RowsOf(table, w)) + SumSizes(RowsOf(table' \ table, w))
             IN UsageSize(table', w) = IF sum < 0 \/ sum > U64Max THEN 0 ELSE sum]_vars

\* C15 witness: a batch of two entries, one on a key that had a row and one
\* on a new key, has returned 1: the new key has its row and the old row
\* is as it was.
C15_Witness ==
  /\ last.op = "insert_blob_metadata_bulk"
  /\ Len(last.metadata) = 2
  /\ EntryKey(last.metadata[1]) # EntryKey(last.metadata[2])
  /\ last.res = 1
  /\ \A i \in 1..2 : Exists(table, last.workspace_id, EntryKey(last.metadata[i]))
  /\ \E i \in 1..2 :
       /\ <<last.workspace_id, EntryKey(last.metadata[i])>> \in DOMAIN origin
       /\ origin[<<last.workspace_id, EntryKey(last.metadata[i])>>].op
            = "insert_blob_metadata"

\* C19: one insert_blob_metadata(w, f, t, s) racing one committed
\* delete_blob_metadata(w, f).  Both return success.  When the upsert is the
\* later of the two (it runs while the delete's transaction is open and has
\* not deleted the key, or right after the commit that deleted it), the key
\* has exactly one row, holding (t, s).  When the delete is the later one (its
\* commit removes a row that insert_blob_metadata wrote), the key has no row.
C19_UpsertDeleteRace ==
  [][/\ (last'.op = "insert_blob_metadata" /\
          (txOpen \/ (last.op = "commit" /\
                      <<last'.workspace_id, last'.file_id>> \in last.deleted)) =>
          /\ last'.res = "Ok"
          /\ {r \in table' : r.workspace_id = last'.workspace_id /\
                              r.file_id = last'.file_id}
               = {Row(last'.workspace_id, last'.file_id, last'.file_type,
                      last'.file_size)})
     /\ (last'.op = "delete_blob_metadata" => last'.res = "Ok")
     /\ (last'.op = "commit" =>
          \A k \in txDeleted :
            (OriginOf(k).op = "insert_blob_metadata" /\
             \A r \in txInserted : <<r.workspace_id, r.file_id>> # k) =>
              \A r \in table' : <<r.workspace_id, r.file_id>> # k)]_vars

\* C19, as far as the code goes: the same, the row left by the upsert holding
\* t and the size after its cast to i64.
C19_UpsertDeleteRaceUpToCast ==
  [][/\ (last'.op = "insert_blob_metadata" /\
          (txOpen \/ (last.op = "commit" /\
                      <<last'.workspace_id, last'.file_id>> \in last.deleted)) =>
          /\ last'.res = "Ok"
          /\ {r \in table' : r.workspace_id = last'.workspace_id /\
                              r.file_id = last'.file_id}
               = {Row(last'.workspace_id, last'.file_id, last'.file_type,
                      ToI64(last'.file_size))})
     /\ (last'.op = "delete_blob_metadata" => last'.res = "Ok")
     /\ (last'.op = "commit" =>
          \A k \in txDeleted :
            (OriginOf(k).op = "insert_blob_metadata" /\
             \A r \in txInserted : <<r.workspace_id, r.file_id>> # k) =>
              \A r \in table' : <<r.workspace_id, r.file_id>> # k)]_vars

C9_FileSizeNonNegative ==
  \A r \in table : 0 <= r.file_size /\ r.file_size <= I64Max

\* C10: the value get_workspace_usage_size returns is never a wrapped sum: it
\* is the exact sum when that lies in 0..U64Max, and 0 when the sum is
\* negative or above U64Max.
C10_UsageNeverWraps ==
  last.op = "get_workspace_usage_size" =>
    LET sum == ExactUsage(last.workspace_id) IN
    /\ last.res \in 0..U64Max
    /\ (0 <= sum /\ sum <= U64Max) => last.res = sum
    /\ (sum < 0 \/ sum > U64Max) => last.res = 0

\* C10 witness: get_workspace_usage_size has returned 0 for a workspace whose
\* rows, all of non-negative size, sum to more than U64Max, and whose sum
\* wrapped to WordBits bits would not be 0.
C10_Witness ==
  /\ last.op = "get_workspace_usage_size"
  /\ \A r \in table : r.file_size >= 0
  /\ ExactUsage(last.workspace_id) > U64Max
  /\ ExactUsage(last.workspace_id) % 2^WordBits # 0
  /\ last.res = 0

====
